---- MODULE Spec2Model ----
(***************************************************************************)
(* A model of the LCDM-2000 serial link driver (lcdm_2000_api.go).         *)
(*                                                                         *)
(* Spec      : one link session (LCDMDispenser) and the command call that  *)
(*             is in flight on it, one action per transport interaction.   *)
(* FrameSpec : the pure functions of the driver (getChecksum, the frame    *)
(*             built by sendRequest, the validation done by readRespData), *)
(*             applied to inputs drawn from bounded sets.                  *)
(*                                                                         *)
(* Bytes are the naturals 0..255.                                          *)
(***************************************************************************)
EXTENDS Integers, Sequences, FiniteSets, TLC

VARIABLES
    open,            \* LCDMDispenser.open
    port,            \* LCDMDispenser.port: "nil", "live" (an open handle) or "closed"
    sess,            \* what the last Open / Close call did and returned
    pc,              \* position of the command call in flight
    cmd,             \* the command operation in flight
    wire,            \* every port.Write of the call in flight, in order
    log,             \* the transport operations of the call in flight, in order
    readTriesCount,  \* readTriesCount of the read loop in progress
    nReads,          \* number of port.Read calls made by the read loop in progress
    ctrl,            \* buf[0] of readRespCode once its loop has ended, else NoByte
    lost,            \* the bytes readRespCode received after buf[0] (never looked at)
    buf,             \* buf of readRespData
    bufCap,          \* cap(buf) of readRespData
    data,            \* the payload readRespData returned
    ret,             \* what the command call returned
    rxData,          \* the bytes port.Read gave readRespData, in arrival order
    failed,          \* the transport operation of the call that returned an error
    fin,             \* FrameSpec: the input of the pure function applied
    fout             \* FrameSpec: its output

sessVars == <<open, port, sess>>
callVars == <<pc, cmd, wire, log, readTriesCount, nReads, ctrl, lost, buf, bufCap, data, ret,
              rxData, failed>>
frameVars == <<fin, fout>>
vars == <<open, port, sess, pc, cmd, wire, log, readTriesCount, nReads, ctrl, lost,
          buf, bufCap, data, ret, rxData, failed, fin, fout>>

----------------------------------------------------------------------------
(* Protocol constants.                                                     *)

RequestStart == 4
ResponseStart == 1
CommunicationIdentify == 80
TextStart == 2
TextEnd == 3

ErrorResponse == 0
AckResponse == 6
NackResponse == 21
EotResponse == 4

maxReadCount == 1050
InnerBufSize == 256

Byte == 0..255
NoByte == 0 - 1

----------------------------------------------------------------------------
(* Bounds of the model.                                                    *)

\* longest run of bytes readRespCode receives in one read after the control byte
MaxCodeTail == 1
\* longest byte sequence handed to the pure functions in FrameSpec
MaxLen == 7

----------------------------------------------------------------------------
(* Byte arithmetic.                                                        *)

RECURSIVE XorBits(_, _, _)
XorBits(a, b, k) ==
    IF k = 0 THEN 0
    ELSE ((a + b) % 2) + 2 * XorBits(a \div 2, b \div 2, k - 1)

\* a ^ b on bytes
Xor(a, b) == XorBits(a, b, 8)

RECURSIVE Pow2(_)
Pow2(k) == IF k = 0 THEN 1 ELSE 2 * Pow2(k - 1)

\* (b & (1 << k)) != 0
BitSet(b, k) == (b \div Pow2(k)) % 2 = 1

RECURSIVE ChecksumUpTo(_, _)
ChecksumUpTo(d, n) ==
    IF n = 0 THEN 0 ELSE Xor(ChecksumUpTo(d, n - 1), d[n])

\* a checksum that leaves the last byte out of the fold
getChecksumSkipLast(d) == ChecksumUpTo(d, IF Len(d) = 0 THEN 0 ELSE Len(d) - 1)

\* getChecksum: chksum = chksum ^ b for every b of data, from 0
getChecksum(d) == ChecksumUpTo(d, Len(d))

RECURSIVE Flatten(_)
Flatten(chunks) ==
    IF chunks = <<>> THEN <<>> ELSE Head(chunks) \o Flatten(Tail(chunks))

----------------------------------------------------------------------------
(* Results of a call.                                                      *)

\* The error values of the driver, under the names of the error taxonomy:
\*   "LinkClosed"              errors.New("serial port is closed")
\*   "TransportError"          the err of port.Read / port.Write
\*   "ReadExhausted"           fmt.Errorf("Reads tries exceeded")
\*   "ResponseNotAcknowledged" errors.New("Response not ACK")
\*   "MalformedFrame"          fmt.Errorf("Response format invalid")
\*   "ChecksumMismatch"        fmt.Errorf("Response verification failed")
ErrorKinds ==
    {"LinkClosed", "TransportError", "ReadExhausted", "ResponseNotAcknowledged",
     "MalformedFrame", "ChecksumMismatch"}

NoRet == [kind |-> "none", err |-> "", val |-> <<>>]
Err(e) == [kind |-> "err", err |-> e, val |-> <<>>]
Ok(v) == [kind |-> "ok", err |-> "", val |-> v]
\* a run-time panic of the Go program (index or slice bounds out of range)
Panic == [kind |-> "panic", err |-> "", val |-> <<>>]

----------------------------------------------------------------------------
(* sendRequest: the request frame.                                         *)

\* a frame whose checksum leaves TextEnd out
BuildRequestNoEndInSum(commandCode, bytesData) ==
    LET body == <<RequestStart, CommunicationIdentify, TextStart, commandCode>>
                    \o Flatten(bytesData)
    IN  body \o <<TextEnd>> \o <<getChecksum(body)>>

\* the bytes sendRequest hands to port.Write
BuildRequest(commandCode, bytesData) ==
    LET body == <<RequestStart, CommunicationIdentify, TextStart, commandCode>>
                    \o Flatten(bytesData) \o <<TextEnd>>
    IN  body \o <<getChecksum(body)>>

----------------------------------------------------------------------------
(* readRespData: the validation of a candidate buffer.                     *)

\* a stop test that looks at the last byte
StopConditionLastByte(b) == Len(b) > 2 /\ b[Len(b)] = TextEnd

\* the loop of readRespData ends on buf exactly when this holds
StopCondition(b) == Len(b) > 2 /\ b[Len(b) - 1] = TextEnd

\* validation that compares the checksum before it looks at the header
ValidateFrameSumFirst(b) ==
    LET crc == b[Len(b)]
        s == SubSeq(b, 1, Len(b) - 1)
    IN  IF crc # getChecksum(s) THEN Err("ChecksumMismatch")
        ELSE IF b[1] # ResponseStart \/ b[2] # CommunicationIdentify
             THEN Err("MalformedFrame")
        ELSE IF Len(s) < 3 THEN Panic
        ELSE IF s[3] # TextStart \/ s[Len(s)] # TextEnd THEN Err("MalformedFrame")
        ELSE IF Len(s) < 5 THEN Panic
        ELSE Ok(SubSeq(s, 5, Len(s) - 1))

\* validation that returns everything after TextStart, TextEnd included
ValidateFrameKeepEnd(b) ==
    LET crc == b[Len(b)]
        s == SubSeq(b, 1, Len(b) - 1)
    IN  IF b[1] # ResponseStart \/ b[2] # CommunicationIdentify
        THEN Err("MalformedFrame")
        ELSE IF crc # getChecksum(s) THEN Err("ChecksumMismatch")
        ELSE IF Len(s) < 3 THEN Panic
        ELSE IF s[3] # TextStart \/ s[Len(s)] # TextEnd THEN Err("MalformedFrame")
        ELSE IF Len(s) < 5 THEN Panic
        ELSE Ok(SubSeq(s, 5, Len(s)))

\* lines 409-434 of readRespData on the buffer b the loop ended with (Len(b) > 2):
\* the header, then the checksum, then the text markers, then buf[4 : len(buf)-1]
ValidateFrame(b) ==
    LET crc == b[Len(b)]
        s == SubSeq(b, 1, Len(b) - 1)
    IN  IF b[1] # ResponseStart \/ b[2] # CommunicationIdentify
        THEN Err("MalformedFrame")
        ELSE IF crc # getChecksum(s) THEN Err("ChecksumMismatch")
        \* buf[2] of a two-byte buffer: index out of range
        ELSE IF Len(s) < 3 THEN Panic
        ELSE IF s[3] # TextStart \/ s[Len(s)] # TextEnd THEN Err("MalformedFrame")
        \* buf[4 : len(buf)-1] with len(buf) = 4: slice bounds out of range [4:3]
        ELSE IF Len(s) < 5 THEN Panic
        ELSE Ok(SubSeq(s, 5, Len(s) - 1))

----------------------------------------------------------------------------
(* append: the capacity of buf (the gc runtime's growslice for bytes).     *)

SizeClasses == {8, 16, 24, 32, 48, 64, 80, 96, 112, 128, 144, 160, 176, 192, 208,
                224, 240, 256, 288, 320}

RoundUpSize(n) == CHOOSE c \in SizeClasses : c >= n /\ \A d \in SizeClasses : d >= n => c <= d

\* cap(append(buf, chunk...)) for cap(buf) = oldCap and the new length newLen
GrowCap(oldCap, newLen) ==
    IF newLen <= oldCap THEN oldCap
    ELSE IF newLen > 2 * oldCap THEN RoundUpSize(newLen)
    ELSE RoundUpSize(2 * oldCap)

----------------------------------------------------------------------------
(* The command operations: request payloads and response decoding.         *)

Digit(n) == 48 + n

\* []byte(fmt.Sprintf("%02d", count)): at least two decimal digits
Fmt02d(count) ==
    IF count < 10 THEN <<Digit(0), Digit(count)>>
    ELSE IF count < 100 THEN <<Digit(count \div 10), Digit(count % 10)>>
    ELSE <<Digit(count \div 100), Digit((count \div 10) % 10), Digit(count % 10)>>

IsDigit(b) == 48 <= b /\ b <= 57

RECURSIVE DecValue(_, _)
\* the decimal value of the first n bytes of s, saturated above 255
DecValue(s, n) ==
    IF n = 0 THEN 0
    ELSE LET v == 10 * DecValue(s, n - 1) + (s[n] - 48)
         IN  IF v > 255 THEN 256 ELSE v

\* byte(val) for val, _ := strconv.ParseUint(string(s), 10, 8): 0 on a syntax
\* error, 255 on a range error
ParseUint(s) ==
    IF s = <<>> \/ \E i \in 1..Len(s) : ~IsDigit(s[i]) THEN 0
    ELSE IF DecValue(s, Len(s)) > 255 THEN 255
    ELSE DecValue(s, Len(s))

\* The array behind the payload: the candidate buffer b, then zeroes up to its
\* capacity c. The payload is the window that starts at offset 4 of it.
Under(b, c) == [i \in 1..c |-> IF i <= Len(b) THEN b[i] ELSE 0]

\* len(response) and cap(response) for response = buf[4 : len(buf)-1], buf = b[:len(b)-1]
RespLen(b) == Len(b) - 6
RespCap(c) == c - 4

\* response[i], an index expression: defined for 0 <= i < len(response)
At(b, i) == b[5 + i]

\* response[lo:hi], a slice expression: defined for lo <= hi <= cap(response)
Slice(b, c, lo, hi) == [i \in 1..(hi - lo) |-> Under(b, c)[4 + lo + i]]

\* a decoding of the status response that starts at its first byte
DecodeStatusFromFirst(b, c) ==
    IF RespLen(b) < 3 THEN Panic
    ELSE Ok([StatusCode |-> At(b, 0),
             CheckSensor1 |-> BitSet(At(b, 1), 0),
             CheckSensor2 |-> BitSet(At(b, 1), 1),
             CheckSensor3 |-> BitSet(At(b, 2), 3),
             CheckSensor4 |-> BitSet(At(b, 2), 4),
             DivertSensor1 |-> BitSet(At(b, 1), 2),
             DivertSensor2 |-> BitSet(At(b, 1), 3),
             EjectSensor |-> BitSet(At(b, 1), 4),
             ExitSensor |-> BitSet(At(b, 1), 5),
             SolenoidSensor |-> BitSet(At(b, 2), 0),
             UpperNearEnd |-> BitSet(At(b, 1), 6),
             LowerNearEnd |-> BitSet(At(b, 2), 5),
             CashBoxUpper |-> BitSet(At(b, 2), 1),
             CashBoxLower |-> BitSet(At(b, 2), 2),
             RejectTray |-> BitSet(At(b, 2), 6)])

\* Status, lines 168-183
DecodeStatus(b, c) ==
    IF RespLen(b) < 4 THEN Panic
    ELSE Ok([StatusCode |-> At(b, 1),
             CheckSensor1 |-> BitSet(At(b, 2), 0),
             CheckSensor2 |-> BitSet(At(b, 2), 1),
             CheckSensor3 |-> BitSet(At(b, 3), 3),
             CheckSensor4 |-> BitSet(At(b, 3), 4),
             DivertSensor1 |-> BitSet(At(b, 2), 2),
             DivertSensor2 |-> BitSet(At(b, 2), 3),
             EjectSensor |-> BitSet(At(b, 2), 4),
             ExitSensor |-> BitSet(At(b, 2), 5),
             SolenoidSensor |-> BitSet(At(b, 3), 0),
             UpperNearEnd |-> BitSet(At(b, 2), 6),
             LowerNearEnd |-> BitSet(At(b, 3), 5),
             CashBoxUpper |-> BitSet(At(b, 3), 1),
             CashBoxLower |-> BitSet(At(b, 3), 2),
             RejectTray |-> BitSet(At(b, 3), 6)])

\* UpperDispense, lines 215-220, and LowerDispense, lines 236-241
DecodeSingle(b, c) ==
    IF RespCap(c) < 34 \/ RespLen(b) < 6 THEN Panic
    ELSE Ok([StatusCode |-> At(b, 4),
             CashboxStatusCode |-> At(b, 5),
             checkSensor |-> ParseUint(Slice(b, c, 0, 2)),
             exitSensor |-> ParseUint(Slice(b, c, 2, 34))])

\* Dispense, lines 257-267
DecodeDual(b, c) ==
    IF RespCap(c) < 34 \/ RespLen(b) < 10 THEN Panic
    ELSE Ok([StatusCode |-> At(b, 8),
             CashboxStatusCode |-> At(b, 9),
             upperCheckSensor |-> ParseUint(Slice(b, c, 0, 2)),
             upperExitSensor |-> ParseUint(Slice(b, c, 2, 34)),
             lowerCheckSensor |-> ParseUint(Slice(b, c, 0, 2)),
             lowerExitSensor |-> ParseUint(Slice(b, c, 2, 34))])

\* RomVersion, line 283
DecodeRomVersion(b, c) ==
    IF RespCap(c) < 8 THEN Panic
    ELSE Ok([model |-> Slice(b, c, 2, 4), version |-> Slice(b, c, 4, 8)])

\* what a command operation returns once readResponse has returned the payload
Decode(op, b, c) ==
    CASE op = "Status" -> DecodeStatus(b, c)
      [] op = "Reset" -> Ok(<<>>)
      [] op = "UpperDispense" -> DecodeSingle(b, c)
      [] op = "LowerDispense" -> DecodeSingle(b, c)
      [] op = "Dispense" -> DecodeDual(b, c)
      [] op = "RomVersion" -> DecodeRomVersion(b, c)

\* the counts the callers of the model pass to the dispense operations
Counts == {7}

NoCmd == [op |-> "none", code |-> 0, payload |-> <<>>]

----------------------------------------------------------------------------
(* The transport: what the device may send in reply to a request.          *)

WithSum(f) == f \o <<getChecksum(f)>>

RespFrame(body) ==
    WithSum(<<ResponseStart, CommunicationIdentify, TextStart>> \o body \o <<TextEnd>>)

BadSum(f) == [f EXCEPT ![Len(f)] = Xor(f[Len(f)], 1)]

\* The data frames of the model's device: a reply without payload, a reply with
\* nothing between the markers, the same replies with a wrong checksum or a
\* wrong first byte, a status reply, and line noise that begins with TextEnd.
DeviceFrames ==
    { RespFrame(<<68>>),
      <<TextEnd, TextEnd, 0>>,
      RespFrame(<<>>),
      BadSum(RespFrame(<<68>>)),
      WithSum(<<0, CommunicationIdentify, TextStart, 68, TextEnd>>),
      RespFrame(<<70, 0, 48, 5, 2>>) }

FramePrefixes == UNION {{SubSeq(f, 1, n) : n \in 0..Len(f)} : f \in DeviceFrames}

IsPrefix(p, q) == Len(p) <= Len(q) /\ SubSeq(q, 1, Len(p)) = p

\* what one port.Read may return once `sofar` has been received after the
\* control byte: nothing (the read timed out) or the next bytes of a frame,
\* at most len(innerBuf) of them
NextChunks(sofar) ==
    {SubSeq(q, Len(sofar) + 1, Len(q)) :
        q \in {r \in FramePrefixes : IsPrefix(sofar, r) /\ Len(r) - Len(sofar) <= InnerBufSize}}

\* what the read that ends the loop of readRespCode may return: one byte, or
\* an ACK together with the first bytes of the data frame
CodeChunks ==
    {<<b>> : b \in Byte}
        \cup {<<AckResponse>> \o t : t \in {r \in FramePrefixes : Len(r) >= 1 /\ Len(r) <= MaxCodeTail}}

----------------------------------------------------------------------------
(* The session: NewConnection, Open, Close.                                *)

NoSess == [op |-> "none", err |-> "", wasOpen |-> FALSE, portOk |-> FALSE]

IdleCall ==
    /\ pc = "idle"
    /\ cmd = NoCmd
    /\ wire = <<>>
    /\ log = <<>>
    /\ readTriesCount = 0
    /\ nReads = 0
    /\ ctrl = NoByte
    /\ lost = <<>>
    /\ buf = <<>>
    /\ bufCap = 0
    /\ data = <<>>
    /\ ret = NoRet
    /\ rxData = <<>>
    /\ failed = "none"

IdleFrame == fin = [op |-> "none"] /\ fout = [op |-> "none"]

\* NewConnection: serial.OpenPort succeeded (port set, open = true) or
\* failed (the zero value: port nil, open false)
Init ==
    /\ \/ open = TRUE /\ port = "live"
       \/ open = FALSE /\ port = "nil"
    /\ sess = NoSess
    /\ IdleCall
    /\ IdleFrame

\* Open, with portOk: whether serial.OpenPort(s.config) would succeed
Open ==
    /\ pc = "idle"
    /\ \E portOk \in BOOLEAN :
         IF port = "nil" \/ ~open
         THEN /\ sess' = [op |-> "Open", err |-> "port already opened",
                          wasOpen |-> open, portOk |-> portOk]
              /\ UNCHANGED <<open, port>>
         ELSE IF ~portOk
         THEN /\ sess' = [op |-> "Open", err |-> "TransportError",
                          wasOpen |-> open, portOk |-> portOk]
              /\ UNCHANGED <<open, port>>
         ELSE /\ port' = "live"
              /\ open' = TRUE
              /\ sess' = [op |-> "Open", err |-> "", wasOpen |-> open, portOk |-> portOk]
    /\ UNCHANGED callVars
    /\ UNCHANGED frameVars

\* Close, with closeOk: whether port.Close() succeeds
Close ==
    /\ pc = "idle"
    /\ \E closeOk \in BOOLEAN :
         IF port = "nil" \/ ~open
         THEN /\ sess' = [op |-> "Close", err |-> "port not opened",
                          wasOpen |-> open, portOk |-> closeOk]
              /\ UNCHANGED <<open, port>>
         ELSE /\ port' = "closed"
              /\ open' = FALSE
              /\ sess' = [op |-> "Close", err |-> IF closeOk THEN "" ELSE "TransportError",
                          wasOpen |-> open, portOk |-> closeOk]
    /\ UNCHANGED callVars
    /\ UNCHANGED frameVars

----------------------------------------------------------------------------
(* A command call: sendRequest, then readResponse, then the decoding.      *)

\* the reads of one loop are one entry of the log; every write is its own
AddRead(l, e) == IF l # <<>> /\ l[Len(l)] = e THEN l ELSE Append(l, e)

\* sendRequest without the check of v.open
sendRequestUnguarded(op, commandCode, bytesData) ==
    /\ cmd' = [op |-> op, code |-> commandCode, payload |-> Flatten(bytesData)]
    /\ sess' = NoSess
    /\ \E writeOk \in BOOLEAN :
         /\ wire' = <<BuildRequest(commandCode, bytesData)>>
         /\ log' = <<"write">>
         /\ IF writeOk
            THEN pc' = "readRespCode" /\ ret' = NoRet /\ failed' = "none"
            ELSE pc' = "done" /\ ret' = Err("TransportError") /\ failed' = "write"
    /\ UNCHANGED <<open, port, readTriesCount, nReads, ctrl, lost, buf, bufCap, data, rxData>>
    /\ UNCHANGED frameVars

\* sendRequest that marks the session closed when the write fails
sendRequestClosesOnError(op, commandCode, bytesData) ==
    /\ cmd' = [op |-> op, code |-> commandCode, payload |-> Flatten(bytesData)]
    /\ sess' = NoSess
    /\ IF ~open
       THEN /\ pc' = "done"
            /\ ret' = Err("LinkClosed")
            /\ UNCHANGED <<wire, log, failed, open>>
       ELSE \E writeOk \in BOOLEAN :
              /\ wire' = <<BuildRequest(commandCode, bytesData)>>
              /\ log' = <<"write">>
              /\ open' = writeOk
              /\ IF writeOk
                 THEN pc' = "readRespCode" /\ ret' = NoRet /\ failed' = "none"
                 ELSE pc' = "done" /\ ret' = Err("TransportError") /\ failed' = "write"
    /\ UNCHANGED <<port, readTriesCount, nReads, ctrl, lost, buf, bufCap, data, rxData>>
    /\ UNCHANGED frameVars

\* sendRequest that goes on to read after a failed write
sendRequestWriteErrorDropped(op, commandCode, bytesData) ==
    /\ cmd' = [op |-> op, code |-> commandCode, payload |-> Flatten(bytesData)]
    /\ sess' = NoSess
    /\ IF ~open
       THEN /\ pc' = "done"
            /\ ret' = Err("LinkClosed")
            /\ UNCHANGED <<wire, log, failed>>
       ELSE \E writeOk \in BOOLEAN :
              /\ wire' = <<BuildRequest(commandCode, bytesData)>>
              /\ log' = <<"write">>
              /\ pc' = "readRespCode"
              /\ ret' = NoRet
              /\ failed' = IF writeOk THEN "none" ELSE "write"
    /\ UNCHANGED <<open, port, readTriesCount, nReads, ctrl, lost, buf, bufCap, data, rxData>>
    /\ UNCHANGED frameVars

\* The first step of every command operation: sendRequest, and the return of
\* its error if it has one. writeOk: whether port.Write succeeds.
sendRequest(op, commandCode, bytesData) ==
    /\ cmd' = [op |-> op, code |-> commandCode, payload |-> Flatten(bytesData)]
    /\ sess' = NoSess
    /\ IF ~open
       THEN /\ pc' = "done"
            /\ ret' = Err("LinkClosed")
            /\ UNCHANGED <<wire, log, failed>>
       ELSE \E writeOk \in BOOLEAN :
              /\ wire' = <<BuildRequest(commandCode, bytesData)>>
              /\ log' = <<"write">>
              /\ IF writeOk
                 THEN pc' = "readRespCode" /\ ret' = NoRet /\ failed' = "none"
                 ELSE pc' = "done" /\ ret' = Err("TransportError") /\ failed' = "write"
    /\ UNCHANGED <<open, port, readTriesCount, nReads, ctrl, lost, buf, bufCap, data, rxData>>
    /\ UNCHANGED frameVars

\* A command operation is called when no other call is in flight.
Status ==
    /\ pc = "idle"
    /\ sendRequest("Status", 70, <<<<>>>>)

Reset ==
    /\ pc = "idle"
    /\ sendRequest("Reset", 68, <<<<>>>>)

UpperDispense ==
    /\ pc = "idle"
    /\ \E count \in Counts : sendRequest("UpperDispense", 69, <<Fmt02d(count)>>)

LowerDispense ==
    /\ pc = "idle"
    /\ \E count \in Counts : sendRequest("LowerDispense", 85, <<Fmt02d(count)>>)

Dispense ==
    /\ pc = "idle"
    /\ \E upperCount \in Counts, lowerCount \in Counts :
         sendRequest("Dispense", 85, <<Fmt02d(upperCount) \o Fmt02d(lowerCount)>>)

RomVersion ==
    /\ pc = "idle"
    /\ sendRequest("RomVersion", 71, <<<<>>>>)

\* the classification at the end of readRespCode
Classify(b) ==
    IF b = 6 THEN AckResponse
    ELSE IF b = 21 THEN NackResponse
    ELSE IF b = 4 THEN EotResponse
    ELSE ErrorResponse

\* a test that lets a negative acknowledgement through as well
IsAckOrNack(resp) == resp = AckResponse \/ resp = NackResponse

\* the test readResponse makes on the classification
IsAck(resp) == resp = AckResponse

\* the ceiling test at the head of both read loops
Exceeded(tries) == tries >= maxReadCount

\* One iteration of the loop of readRespCode; when the loop ends, the
\* classification of buf[0] and, in readResponse, the test for AckResponse.
\* readTriesCount and nReads live as long as the loop does.
readRespCode ==
    /\ pc = "readRespCode"
    /\ IF Exceeded(readTriesCount + 1)
       THEN /\ pc' = "done"
            /\ ret' = Err("ReadExhausted")
            /\ readTriesCount' = 0
            /\ nReads' = 0
            /\ UNCHANGED <<log, ctrl, lost, failed>>
       ELSE /\ log' = AddRead(log, "readCode")
            /\ \/ \* port.Read returns an error
                  /\ pc' = "done"
                  /\ ret' = Err("TransportError")
                  /\ readTriesCount' = 0
                  /\ nReads' = 0
                  /\ failed' = "read"
                  /\ UNCHANGED <<ctrl, lost>>
               \/ \* port.Read returns no byte: totalRead < 1, continue
                  /\ readTriesCount' = readTriesCount + 1
                  /\ nReads' = nReads + 1
                  /\ UNCHANGED <<pc, ret, ctrl, lost, failed>>
               \/ \* port.Read returns bytes: the loop ends
                  \E chunk \in CodeChunks :
                    /\ ctrl' = chunk[1]
                    /\ lost' = Tail(chunk)
                    /\ readTriesCount' = 0
                    /\ nReads' = 0
                    /\ UNCHANGED failed
                    /\ IF IsAck(Classify(chunk[1]))
                       THEN pc' = "readRespData" /\ ret' = NoRet
                       ELSE pc' = "done" /\ ret' = Err("ResponseNotAcknowledged")
    /\ UNCHANGED <<cmd, wire, buf, bufCap, data, rxData>>
    /\ UNCHANGED sessVars
    /\ UNCHANGED frameVars

\* the result of readRespData once its loop has ended on b
AfterLoop(b) == ValidateFrame(b)

\* buf = append(buf, innerBuf[:totalRead]...)
Accumulate(b, chunk) == b \o chunk

\* One iteration of the loop of readRespData; when the loop ends, the
\* validation of buf.
readRespData ==
    /\ pc = "readRespData"
    /\ IF Exceeded(readTriesCount + 1)
       THEN /\ pc' = "done"
            /\ ret' = Err("ReadExhausted")
            /\ readTriesCount' = 0
            /\ nReads' = 0
            /\ UNCHANGED <<log, buf, bufCap, data, rxData, failed>>
       ELSE /\ log' = AddRead(log, "readData")
            /\ \/ \* port.Read returns an error
                  /\ pc' = "done"
                  /\ ret' = Err("TransportError")
                  /\ readTriesCount' = 0
                  /\ nReads' = 0
                  /\ failed' = "read"
                  /\ UNCHANGED <<buf, bufCap, data, rxData>>
               \/ \* port.Read returns a chunk, which may be empty
                  \E chunk \in NextChunks(lost \o rxData) :
                    /\ rxData' = rxData \o chunk
                    /\ buf' = Accumulate(buf, chunk)
                    /\ bufCap' = GrowCap(bufCap, Len(buf) + Len(chunk))
                    /\ UNCHANGED failed
                    /\ IF StopCondition(Accumulate(buf, chunk))
                       THEN /\ readTriesCount' = 0
                            /\ nReads' = 0
                            /\ IF AfterLoop(Accumulate(buf, chunk)).kind = "ok"
                               THEN /\ pc' = "Ack"
                                    /\ data' = AfterLoop(Accumulate(buf, chunk)).val
                                    /\ ret' = NoRet
                               ELSE /\ pc' = "done"
                                    /\ ret' = AfterLoop(Accumulate(buf, chunk))
                                    /\ UNCHANGED data
                       ELSE /\ readTriesCount' = readTriesCount + 1
                            /\ nReads' = nReads + 1
                            /\ UNCHANGED <<pc, ret, data>>
    /\ UNCHANGED <<cmd, wire, ctrl, lost>>
    /\ UNCHANGED sessVars
    /\ UNCHANGED frameVars

\* an acknowledgement after which readResponse returns at once
AckWithoutSleep ==
    /\ pc = "Ack"
    /\ wire' = Append(wire, <<6>>)
    /\ log' = Append(log, "write")
    /\ pc' = "decode"
    /\ \E ackOk \in BOOLEAN : failed' = IF ackOk THEN failed ELSE "ack"
    /\ UNCHANGED <<cmd, readTriesCount, nReads, ctrl, lost, buf, bufCap, data, ret, rxData>>
    /\ UNCHANGED sessVars
    /\ UNCHANGED frameVars

\* an acknowledgement whose write error ends the call
AckErrorReturned ==
    /\ pc = "Ack"
    /\ wire' = Append(wire, <<6>>)
    /\ log' = Append(log, "write")
    /\ \E ackOk \in BOOLEAN :
         IF ackOk
         THEN pc' = "Sleep" /\ UNCHANGED <<failed, ret>>
         ELSE pc' = "done" /\ failed' = "ack" /\ ret' = Err("TransportError")
    /\ UNCHANGED <<cmd, readTriesCount, nReads, ctrl, lost, buf, bufCap, data, rxData>>
    /\ UNCHANGED sessVars
    /\ UNCHANGED frameVars

\* v.Ack() in readResponse: one byte written, the result of the write dropped.
\* ackOk: whether port.Write succeeds.
Ack ==
    /\ pc = "Ack"
    /\ wire' = Append(wire, <<6>>)
    /\ log' = Append(log, "write")
    /\ pc' = "Sleep"
    /\ \E ackOk \in BOOLEAN : failed' = IF ackOk THEN failed ELSE "ack"
    /\ UNCHANGED <<cmd, readTriesCount, nReads, ctrl, lost, buf, bufCap, data, ret, rxData>>
    /\ UNCHANGED sessVars
    /\ UNCHANGED frameVars

\* time.Sleep(time.Millisecond * 200) in readResponse
Sleep ==
    /\ pc = "Sleep"
    /\ log' = Append(log, "sleep")
    /\ pc' = "decode"
    /\ UNCHANGED <<cmd, wire, readTriesCount, nReads, ctrl, lost, buf, bufCap, data, ret,
                   rxData, failed>>
    /\ UNCHANGED sessVars
    /\ UNCHANGED frameVars

\* readResponse returns data; the command operation decodes it and returns
DecodeResponse ==
    /\ pc = "decode"
    /\ ret' = Decode(cmd.op, buf, bufCap)
    /\ pc' = "done"
    /\ UNCHANGED <<cmd, wire, log, readTriesCount, nReads, ctrl, lost, buf, bufCap, data,
                   rxData, failed>>
    /\ UNCHANGED sessVars
    /\ UNCHANGED frameVars

\* the caller has the result; the session is ready for the next call
Return ==
    /\ pc = "done"
    /\ pc' = "idle"
    /\ cmd' = NoCmd
    /\ wire' = <<>>
    /\ log' = <<>>
    /\ ctrl' = NoByte
    /\ lost' = <<>>
    /\ buf' = <<>>
    /\ bufCap' = 0
    /\ data' = <<>>
    /\ ret' = NoRet
    /\ rxData' = <<>>
    /\ failed' = "none"
    /\ UNCHANGED <<readTriesCount, nReads>>
    /\ UNCHANGED sessVars
    /\ UNCHANGED frameVars

Next ==
    \/ Open
    \/ Close
    \/ Status
    \/ Reset
    \/ UpperDispense
    \/ LowerDispense
    \/ Dispense
    \/ RomVersion
    \/ readRespCode
    \/ readRespData
    \/ Ack
    \/ Sleep
    \/ DecodeResponse
    \/ Return

Spec == Init /\ [][Next]_vars

----------------------------------------------------------------------------
(* FrameSpec: the pure functions, applied to inputs from bounded sets.     *)

\* sequences over S of length lo..hi
SeqsOf(S, lo, hi) == UNION {[1..n -> S] : n \in lo..hi}

\* the bytes the inputs are made of: the protocol's markers, a zero, a digit
FrameAlphabet == {0, ResponseStart, TextStart, TextEnd, CommunicationIdentify}
BodyAlphabet == {ResponseStart, TextStart, TextEnd, CommunicationIdentify}
ChunkAlphabet == {TextEnd, Digit(7)}
CommandCodes == {0, 68, 69, 70, 71, 85, 255}

\* longest sequence b whose checksum is taken and then damaged
MaxBody == 4
\* most payload chunks handed to sendRequest, and the longest of them
MaxChunks == 2
MaxChunkLen == 2

\* the buffers the loop of readRespData can end with
Candidates == {b \in SeqsOf(FrameAlphabet, 3, MaxLen) : StopCondition(b)}

\* b with bit k of its byte at position pos inverted
FlipBit(b, pos, k) == [b EXCEPT ![pos] = Xor(b[pos], Pow2(k))]

\* crc == crc2 at lines 414-420: the last byte against the checksum of the rest
ChecksumMatches(b) == b[Len(b)] = getChecksum(SubSeq(b, 1, Len(b) - 1))

\* the status and cashbox bytes of a dispense response: each of the 256 values
\* in either position
StatusPairs == (Byte \X {Digit(0)}) \cup ({Digit(0)} \X Byte)

\* the sensor bytes of a status response
SensorBytes == {0, 2, 5}

\* two ASCII pairs as the device sends them: "0705", "6012", "0302"
CountDigits ==
    {<<Digit(0), Digit(7), Digit(0), Digit(5)>>,
     <<Digit(6), Digit(0), Digit(1), Digit(2)>>}
LowerCountDigits == {<<Digit(0), Digit(3), Digit(0), Digit(2)>>}

\* the status and cashbox bytes of the long responses
LongStatusPairs == {<<Digit(0), Digit(0)>>, <<255, Digit(1)>>, <<Digit(2), 0>>}

\* what follows the documented bytes of a long response: 21 more digits
Pad == [i \in 1..21 |-> Digit(0)]

\* validated payloads (the bytes after the command echo) by command
SinglePayloads ==
    {d \o <<sc[1], sc[2]>> : d \in CountDigits, sc \in StatusPairs}
        \cup {d \o <<sc[1], sc[2]>> \o Pad : d \in CountDigits, sc \in LongStatusPairs}
DualPayloads ==
    {d \o e \o <<sc[1], sc[2]>> :
        d \in CountDigits, e \in LowerCountDigits, sc \in StatusPairs}
        \cup {d \o e \o <<sc[1], sc[2]>> \o Pad :
                d \in CountDigits, e \in LowerCountDigits, sc \in LongStatusPairs}
StatusPayloads ==
    {<<r, st, x, y>> : r \in {0}, st \in Byte, x \in SensorBytes, y \in SensorBytes}
        \cup {<<st, x, y>> : st \in {Digit(0), 255}, x \in SensorBytes, y \in SensorBytes}

\* the command code a response echoes at offset 3
CodeOf(op) ==
    CASE op = "Status" -> 70
      [] op = "UpperDispense" -> 69
      [] op = "LowerDispense" -> 85
      [] op = "Dispense" -> 85

PayloadsOf(op) ==
    CASE op = "Status" -> StatusPayloads
      [] op = "UpperDispense" -> SinglePayloads
      [] op = "LowerDispense" -> SinglePayloads
      [] op = "Dispense" -> DualPayloads

\* cap(buf) once readRespData has appended a frame of n bytes that came in a
\* first read of `first` bytes and, if that was not all of it, a second read
ReadCap(first, n) ==
    IF first >= n THEN GrowCap(0, n) ELSE GrowCap(GrowCap(0, first), n)

\* a response to decode: the command, the validated payload, and whether the
\* whole frame came in one read
DecodeInputs ==
    UNION {{[op |-> "decode", cmd |-> c, resp |-> r, whole |-> w] :
              r \in PayloadsOf(c), w \in BOOLEAN} :
           c \in {"Status", "UpperDispense", "LowerDispense", "Dispense"}}

\* the second count of the calls of Dispense
LowerCounts == {0, 7, 99, 100, 255}

\* a call of a dispense operation: every count a byte can hold
RequestInputs ==
    [op : {"request"}, cmd : {"UpperDispense", "LowerDispense"}, upper : Byte, lower : {0}]
        \cup [op : {"request"}, cmd : {"Dispense"}, upper : Byte, lower : LowerCounts]

FrameInputs ==
    [op : {"validate"}, buf : Candidates]
        \cup {[op |-> "checksum", b |-> b, pos |-> pos, bit |-> k] :
                b \in SeqsOf(BodyAlphabet, 0, MaxBody), pos \in 1..(MaxBody + 1), k \in 0..7}
        \cup [op : {"encode"}, code : CommandCodes,
              chunks : SeqsOf(SeqsOf(ChunkAlphabet, 0, MaxChunkLen), 0, MaxChunks)]
        \cup DecodeInputs
        \cup RequestInputs

FrameInit ==
    /\ open = TRUE
    /\ port = "live"
    /\ sess = NoSess
    /\ IdleCall
    /\ fin \in FrameInputs
    /\ fin.op = "checksum" => fin.pos <= Len(fin.b) + 1
    /\ fout = [op |-> "none"]

\* readRespData's validation of a buffer its loop ended with
ApplyValidateFrame ==
    /\ fin.op = "validate"
    /\ fout.op = "none"
    /\ fout' = [op |-> "validate", res |-> ValidateFrame(fin.buf)]
    /\ UNCHANGED <<fin, sessVars, callVars>>

\* getChecksum on b; the comparison of lines 414-420 on b followed by its
\* checksum, and on the same bytes with one bit inverted; the validation of
\* the damaged bytes when they are a buffer the read loop ends with
ApplyChecksum ==
    /\ fin.op = "checksum"
    /\ fout.op = "none"
    /\ LET whole == fin.b \o <<getChecksum(fin.b)>>
           damaged == FlipBit(whole, fin.pos, fin.bit)
       IN  fout' = [op |-> "checksum",
                    whole |-> whole,
                    damaged |-> damaged,
                    matches |-> ChecksumMatches(whole),
                    damagedMatches |-> ChecksumMatches(damaged),
                    res |-> IF StopCondition(damaged) THEN ValidateFrame(damaged)
                            ELSE NoRet]
    /\ UNCHANGED <<fin, sessVars, callVars>>

\* the frame sendRequest builds for a command code and payload chunks
ApplyBuildRequest ==
    /\ fin.op = "encode"
    /\ fout.op = "none"
    /\ fout' = [op |-> "encode", frame |-> BuildRequest(fin.code, fin.chunks)]
    /\ UNCHANGED <<fin, sessVars, callVars>>

\* a command operation's decoding of the payload readResponse returned: the
\* frame as the device sends it, the buffer readRespData ends with and its
\* capacity, the validation, and the decoding when the validation passed
ApplyDecode ==
    /\ fin.op = "decode"
    /\ fout.op = "none"
    /\ LET b == RespFrame(<<CodeOf(fin.cmd)>> \o fin.resp)
           c == ReadCap(IF fin.whole THEN Len(b) ELSE 1, Len(b))
       IN  fout' = [op |-> "decode",
                    buf |-> b,
                    cap |-> c,
                    valid |-> ValidateFrame(b),
                    res |-> IF ValidateFrame(b).kind = "ok" THEN Decode(fin.cmd, b, c)
                            ELSE ValidateFrame(b)]
    /\ UNCHANGED <<fin, sessVars, callVars>>

\* the payload a dispense operation hands to sendRequest, and the frame
\* sendRequest builds from it
ApplyRequestPayload ==
    /\ fin.op = "request"
    /\ fout.op = "none"
    /\ LET payload == IF fin.cmd = "Dispense"
                      THEN Fmt02d(fin.upper) \o Fmt02d(fin.lower)
                      ELSE Fmt02d(fin.upper)
       IN  fout' = [op |-> "request",
                    payload |-> payload,
                    frame |-> BuildRequest(CodeOf(fin.cmd), <<payload>>)]
    /\ UNCHANGED <<fin, sessVars, callVars>>

FrameNext ==
    \/ ApplyValidateFrame
    \/ ApplyChecksum
    \/ ApplyBuildRequest
    \/ ApplyDecode
    \/ ApplyRequestPayload

FrameSpec == FrameInit /\ [][FrameNext]_vars

----------------------------------------------------------------------------
(* The claims.                                                             *)

DispenseOps == {"UpperDispense", "LowerDispense", "Dispense"}

\* C1 (as stated): every command call ends with a decoded result or with one
\* error of the taxonomy, never with an abnormal abort, and a dispense
\* result is never decoded from count bytes that are not ASCII digits.
C1_DecodedOrOneError ==
    pc = "done" =>
        /\ \/ ret.kind = "ok"
           \/ ret.kind = "err" /\ ret.err \in ErrorKinds
        /\ (ret.kind = "ok" /\ cmd.op \in DispenseOps) =>
               \A i \in 0..3 : IsDigit(At(buf, i))

\* C2: on a closed session a command returns LinkClosed and its call makes
\* no transport operation: nothing is written and no read is issued.
C2_ClosedFailsFast ==
    (pc # "idle" /\ ~open) =>
        /\ pc = "done"
        /\ ret.kind = "err"
        /\ ret.err = "LinkClosed"
        /\ wire = <<>>
        /\ log = <<>>
        /\ nReads = 0
        /\ ctrl = NoByte
        /\ buf = <<>>

C2_Witness ==
    /\ pc = "done"
    /\ port = "closed"
    /\ ~open
    /\ cmd.op = "Dispense"
    /\ ret.err = "LinkClosed"

\* C3 (as stated): after Close, an Open for which the transport's open would
\* succeed returns no error and leaves the session open.
C3_ReopenAfterClose ==
    (sess.op = "Open" /\ port # "nil" /\ ~sess.wasOpen /\ sess.portOk) =>
        /\ sess.err = ""
        /\ open

\* C4: readResponse goes on to the data-frame read exactly when the first
\* byte of the control-byte read is 0x06; for any other first byte the call
\* ends with ResponseNotAcknowledged, having read no more and written
\* nothing but its request.
C4_OnlyAckProceeds ==
    /\ pc \in {"readRespData", "Ack", "Sleep", "decode"} => ctrl = 6
    /\ ctrl = 6 => (pc = "readRespData" \/ \E i \in 1..Len(log) : log[i] = "readData")
    /\ (ctrl # NoByte /\ ctrl # 6) =>
           /\ pc = "done"
           /\ ret.kind = "err"
           /\ ret.err = "ResponseNotAcknowledged"
           /\ log = <<"write", "readCode">>
           /\ Len(wire) = 1
           /\ buf = <<>>

C4_Witness ==
    /\ pc = "done"
    /\ ctrl = 200
    /\ ret.err = "ResponseNotAcknowledged"

\* C5 (as stated): a read loop whose reads never meet the stopping condition
\* ends with ReadExhausted after exactly maxReadCount transport reads.
C5_ExhaustedAfterCeilingReads ==
    [][(pc \in {"readRespCode", "readRespData"} /\ ret'.kind = "err"
            /\ ret'.err = "ReadExhausted")
         => nReads = maxReadCount]_vars

\* C6 (as stated): the payload returned for a validated frame is every byte
\* strictly between the TextStart marker (third byte) and the TextEnd marker
\* (second-to-last byte).
C6_PayloadBetweenMarkers ==
    (fout.op = "validate" /\ fout.res.kind = "ok") =>
        fout.res.val = SubSeq(fin.buf, 4, Len(fin.buf) - 2)

\* C6 (amended): a payload that the data-frame read returns is the bytes
\* between the markers without the first of them: the byte that follows
\* TextStart is dropped, and no marker or checksum byte is included.
C6_PayloadAfterFirstByte ==
    (fout.op = "validate" /\ fout.res.kind = "ok") =>
        /\ Len(fout.res.val) = Len(fin.buf) - 6
        /\ \A i \in 1..Len(fout.res.val) : fout.res.val[i] = fin.buf[4 + i]
        /\ fin.buf[3] = 2
        /\ fin.buf[Len(fin.buf) - 1] = 3

C6_Witness ==
    /\ fout.op = "validate"
    /\ fout.res.kind = "ok"
    /\ Len(fout.res.val) >= 1

\* C7: a candidate buffer whose byte 0 is not ResponseStart or whose byte 1
\* is not the device id fails with MalformedFrame, whatever its checksum.
C7_BadHeaderIsMalformed ==
    (fout.op = "validate" /\ (fin.buf[1] # 1 \/ fin.buf[2] # 80)) =>
        /\ fout.res.kind = "err"
        /\ fout.res.err = "MalformedFrame"

C7_Witness ==
    /\ fout.op = "validate"
    /\ fin.buf[1] = 1
    /\ fin.buf[2] # 80
    /\ ~ChecksumMatches(fin.buf)
    /\ fout.res.err = "MalformedFrame"

\* C8 (as stated): the checksum of b matches on b followed by it, and one
\* inverted bit makes validation report ChecksumMismatch. Stated for the b
\* that begin with the response header, the buffers validation can accept.
C8_FlipGivesChecksumMismatch ==
    (fout.op = "checksum" /\ Len(fin.b) >= 2 /\ fin.b[1] = 1 /\ fin.b[2] = 80) =>
        /\ fout.matches
        /\ ~fout.damagedMatches
        /\ fout.res.kind # "none" =>
               (fout.res.kind = "err" /\ fout.res.err = "ChecksumMismatch")

\* C8 (amended): the checksum of b matches on b followed by it, and one
\* inverted bit makes the recomputed checksum differ; validation of the
\* damaged buffer reports ChecksumMismatch when its bytes 0 and 1 are the
\* response header, and MalformedFrame when they are not.
C8_FlipDetected ==
    fout.op = "checksum" =>
        /\ fout.matches
        /\ ~fout.damagedMatches
        /\ fout.res.kind # "none" =>
               /\ fout.res.kind = "err"
               /\ fout.res.err =
                      IF fout.damaged[1] = 1 /\ fout.damaged[2] = 80
                      THEN "ChecksumMismatch" ELSE "MalformedFrame"

C8_Witness ==
    /\ fout.op = "checksum"
    /\ fin.pos = 3
    /\ fout.res.kind = "err"
    /\ fout.res.err = "ChecksumMismatch"

\* C9: the request frame is 0x04, 0x50, 0x02, the command code, the payload
\* chunks in order, 0x03, and the XOR of all these bytes; the XOR of the
\* whole frame is 0.
C9_RequestFrame ==
    fout.op = "encode" =>
        LET f == fout.frame
            p == Flatten(fin.chunks)
            n == Len(p)
        IN  /\ Len(f) = n + 6
            /\ f[1] = 4
            /\ f[2] = 80
            /\ f[3] = 2
            /\ f[4] = fin.code
            /\ \A i \in 1..n : f[4 + i] = p[i]
            /\ f[n + 5] = 3
            /\ f[n + 6] = ChecksumUpTo(f, n + 5)
            /\ ChecksumUpTo(f, n + 6) = 0

C9_Witness ==
    /\ fout.op = "encode"
    /\ Len(fin.chunks) = 2
    /\ Len(fout.frame) = 10
    /\ fin.code = 85

SuccessLog == <<"write", "readCode", "readData", "write", "sleep">>

\* C10: in a call the request is written before any read, the control byte
\* is read before the data frame, one ACK byte is written after the data
\* frame was validated, the delay follows it, and a result is returned only
\* after all five; no second ACK is written.
C10_SuccessOrder ==
    /\ IsPrefix(log, SuccessLog)
    /\ Len(wire) <= 2
    /\ Len(wire) >= 1 => wire[1] = BuildRequest(cmd.code, <<cmd.payload>>)
    /\ Len(wire) = 2 => (wire[2] = <<6>> /\ Len(log) >= 4)
    /\ pc = "decode" => log = SuccessLog
    /\ (pc = "done" /\ ret.kind = "ok") => (log = SuccessLog /\ Len(wire) = 2)

C10_Witness ==
    /\ pc = "done"
    /\ ret.kind = "ok"
    /\ cmd.op = "Status"
    /\ wire[2] = <<6>>


----------------------------------------------------------------------------
(* C11..C14, C18: the request payloads and the decoding of the responses.  *)

\* the decimal value of the ASCII pair at positions i, i+1 of the payload r
PairValue(r, i) == 10 * (r[i] - 48) + (r[i + 1] - 48)

\* C11: UpperDispense and LowerDispense decode a validated payload
\* d1 d2 d3 d4 status cashbox into checkCount = the value of d1 d2,
\* exitCount = the value of d3 d4, and the status and cashbox bytes as they
\* are ("0705", status, cashbox gives 7 and 5).
C11_SinglePairsDecoded ==
    (fout.op = "decode" /\ fin.cmd \in {"UpperDispense", "LowerDispense"}) =>
        /\ fout.res.kind = "ok"
        /\ fout.res.val.checkSensor = PairValue(fin.resp, 1)
        /\ fout.res.val.exitSensor = PairValue(fin.resp, 3)
        /\ fout.res.val.StatusCode = fin.resp[5]
        /\ fout.res.val.CashboxStatusCode = fin.resp[6]


\* C12: for every count a caller can pass (0..255) the request payload of
\* UpperDispense and LowerDispense is exactly two bytes, the two-digit decimal
\* ASCII form of the count, and the payload of Dispense is exactly four bytes.
C12_PayloadWidth ==
    fout.op = "request" =>
        /\ Len(fout.payload) = IF fin.cmd = "Dispense" THEN 4 ELSE 2
        /\ \A i \in 1..Len(fout.payload) : IsDigit(fout.payload[i])
        /\ Len(fout.frame) = Len(fout.payload) + 6


C14_DualPairsDecoded ==
    (fout.op = "decode" /\ fin.cmd = "Dispense") =>
        /\ fout.res.kind = "ok"
        /\ fout.res.val.upperCheckSensor = PairValue(fin.resp, 1)
        /\ fout.res.val.upperExitSensor = PairValue(fin.resp, 3)
        /\ fout.res.val.lowerCheckSensor = PairValue(fin.resp, 5)
        /\ fout.res.val.lowerExitSensor = PairValue(fin.resp, 7)
        /\ fout.res.val.StatusCode = fin.resp[9]
        /\ fout.res.val.CashboxStatusCode = fin.resp[10]


\* offset in the payload of the status byte a command decodes, from 1
StatusAt(op) ==
    CASE op = "Status" -> 2
      [] op = "UpperDispense" -> 5
      [] op = "LowerDispense" -> 5
      [] op = "Dispense" -> 9

\* the number of payload bytes a command decodes
DecodedLen(op) ==
    CASE op = "Status" -> 4
      [] op = "UpperDispense" -> 6
      [] op = "LowerDispense" -> 6
      [] op = "Dispense" -> 10

\* C18: decoding is total over the status and cashbox bytes: for every
\* validated payload long enough for the command, each of the 256 values in
\* a status or cashbox position is returned to the caller as it is and never
\* makes the call fail.
C18_StatusBytesPassThrough ==
    (fout.op = "decode" /\ Len(fin.resp) >= DecodedLen(fin.cmd)) =>
        /\ fout.res.kind = "ok"
        /\ fout.res.val.StatusCode = fin.resp[StatusAt(fin.cmd)]
        /\ fin.cmd # "Status" =>
              fout.res.val.CashboxStatusCode = fin.resp[StatusAt(fin.cmd) + 1]


----------------------------------------------------------------------------
(* C15..C17, C19, C20: the transport as the calls use it.                  *)

\* C15: a transport failure ends the call at once and is never retried: when
\* the write of the request fails the call returns that error without any
\* read; when a read fails in either loop the loop stops at that read, no
\* further read is made, the same error is returned (not ReadExhausted) and
\* no ACK is written.
C15_TransportErrorEndsCall ==
    /\ failed = "write" =>
          /\ pc = "done"
          /\ ret = Err("TransportError")
          /\ log = <<"write">>
          /\ Len(wire) = 1
    /\ failed = "read" =>
          /\ pc = "done"
          /\ ret = Err("TransportError")
          /\ log \in {<<"write", "readCode">>, <<"write", "readCode", "readData">>}
          /\ Len(wire) = 1
          /\ data = <<>>

C15_Witness ==
    /\ pc = "done"
    /\ failed = "read"
    /\ log = <<"write", "readCode", "readData">>
    /\ Len(buf) = 3
    /\ ctrl = AckResponse
    /\ ret = Err("TransportError")


\* the loop of readRespData has ended on the test of its last lines
LoopStopped ==
    \/ pc \in {"Ack", "Sleep", "decode"}
    \/ pc = "done" /\ ret.kind \in {"ok", "panic"}
    \/ pc = "done" /\ ret.kind = "err" /\ ret.err \in {"MalformedFrame", "ChecksumMismatch"}

\* C16 as stated: the data-frame loop stops after the first read at whose end
\* the second-to-last accumulated byte is TextEnd, and not before; while that
\* is false it reads again; every byte of every read is kept in the buffer
\* in arrival order.
C16_StopsAtTextEnd ==
    /\ pc = "readRespData" => ~(Len(buf) >= 2 /\ buf[Len(buf) - 1] = TextEnd)
    /\ LoopStopped => (Len(buf) >= 2 /\ buf[Len(buf) - 1] = TextEnd)
    /\ buf = rxData

\* C16, amended: the loop stops after the first read at whose end more than
\* two bytes are accumulated and the second-to-last of them is TextEnd, and
\* not before; while that is false it reads again, up to the ceiling or a
\* read error; every byte of every read is kept in the buffer in arrival
\* order.
C16_StopsAtTextEndAfterTwo ==
    /\ pc = "readRespData" => ~(Len(buf) > 2 /\ buf[Len(buf) - 1] = TextEnd)
    /\ LoopStopped => (Len(buf) > 2 /\ buf[Len(buf) - 1] = TextEnd)
    /\ (pc = "done" /\ ret.kind = "err" /\ ret.err \in {"ReadExhausted", "TransportError"}) =>
          ~(Len(buf) > 2 /\ buf[Len(buf) - 1] = TextEnd)
    /\ buf = rxData

C16_Witness ==
    /\ pc = "readRespData"
    /\ nReads >= 2
    /\ buf = <<TextEnd, TextEnd>>
    /\ rxData = buf


\* C17: the open / closed state of the session is changed by Open and Close
\* only: no step of a command call changes it, whether the call succeeds or
\* fails, so a session open before a failed command is open after it.
C17_OnlyOpenCloseChangeOpen ==
    [][/\ (pc # "idle" \/ pc' # "idle") => (open' = open /\ port' = port)
       /\ open' # open => (pc = "idle" /\ pc' = "idle" /\ sess'.op \in {"Open", "Close"})]_vars

C17_Witness ==
    /\ pc = "done"
    /\ ret.kind = "err"
    /\ ret.err = "ChecksumMismatch"
    /\ open
    /\ port = "live"


\* the device's frames that pass every validation and carry a command echo
ValidFrames == {f \in DeviceFrames : Len(f) >= 6 /\ ValidateFrame(f).kind = "ok"}

\* C19: the outcome of a response does not depend on how the transport
\* splits the byte stream into reads: once an ACK and then a valid frame
\* have been received, in whatever reads, including a read that gives the
\* ACK together with the first bytes of the frame, readResponse returns the
\* payload of that frame; no byte is lost between the two read loops.
C19_ChunkingIndependent ==
    \A f \in ValidFrames :
        (ctrl = AckResponse /\ lost \o rxData = f) =>
            /\ pc \in {"Ack", "Sleep", "decode", "done"}
            /\ ret.kind # "err"
            /\ data = SubSeq(f, 5, Len(f) - 2)
            /\ buf = f


\* b has come through lines 409-434: the header, the checksum, the text
\* markers, and the slice that is the payload
Validated(b) ==
    /\ Len(b) >= 6
    /\ b[1] = ResponseStart
    /\ b[2] = CommunicationIdentify
    /\ ChecksumMatches(b)
    /\ b[3] = TextStart
    /\ b[Len(b) - 1] = TextEnd

====
